---- MODULE Spec2Model ----
(***************************************************************************)
(* ClusterPlot (src/src/index.tsx): a scatter view whose hierarchy level   *)
(* follows the zoom amount, with a density filter driven by a slider and a *)
(* cluster focus driven by clicks.  The component's three state cells and  *)
(* its props are the variables; each event handler is one action; the      *)
(* per-render derivations (totalRange, filteredData, markerColors, ...)    *)
(* are operators over the state.                                           *)
(*                                                                         *)
(* JavaScript numbers are modelled as records: a finite value n/d (exact   *)
(* rational), NaN, Infinity or -Infinity.  Within the bounds used here the *)
(* IEEE-754 double result of floor(clamp((T - r) / T) * maxLevel) equals   *)
(* the exact rational result (checked exhaustively for T, maxLevel <= 7),  *)
(* so the exact arithmetic below is the arithmetic of the program.  The    *)
(* only zero divisor is maxX - minX, which is +0.                          *)
(***************************************************************************)
EXTENDS Integers, Sequences, FiniteSets, TLC

\* ------------------------------------------------------------------ bounds
MaxPoints == 2        \* embeddings.length <= MaxPoints
MaxLevelBound == 2    \* the maxLevel prop is in 0..MaxLevelBound
XMax == 2             \* x coordinates in 0..XMax, event bounds in 0..XMax+1
MaxSliderMax == 2     \* the sliderMax prop

\* ------------------------------------------------------- JavaScript values
Fin(n, d) == [k |-> "fin", n |-> n, d |-> d]
NaN == [k |-> "NaN", n |-> 0, d |-> 1]
PosInf == [k |-> "Infinity", n |-> 0, d |-> 1]
NegInf == [k |-> "-Infinity", n |-> 0, d |-> 1]
\* a key that the event object does not carry (reads as undefined)
Absent == [k |-> "undefined", n |-> 0, d |-> 1]

\* cluster ids are strings or numbers; v is the value's string form
StrId(s) == [t |-> "string", v |-> s]
NumId(s) == [t |-> "number", v |-> s]
Undefined == [t |-> "undefined", v |-> "undefined"]
Null == [t |-> "null", v |-> "null"]

\* a < b on numbers (false as soon as one side is NaN)
JsLt(a, b) ==
    IF a.k = "NaN" \/ b.k = "NaN" THEN FALSE
    ELSE IF a.k = "fin" /\ b.k = "fin" THEN a.n * b.d < b.n * a.d
    ELSE IF a.k = "-Infinity" THEN b.k # "-Infinity"
    ELSE IF b.k = "Infinity" THEN a.k # "Infinity"
    ELSE FALSE

JsSub(a, b) ==
    IF a.k = "NaN" \/ b.k = "NaN" THEN NaN
    ELSE IF a.k = "fin" /\ b.k = "fin" THEN Fin(a.n * b.d - b.n * a.d, a.d * b.d)
    ELSE IF a.k = "fin" THEN (IF b.k = "Infinity" THEN NegInf ELSE PosInf)
    ELSE IF b.k = "fin" THEN a
    ELSE IF a.k = b.k THEN NaN
    ELSE a

JsAdd(a, b) ==
    IF a.k = "NaN" \/ b.k = "NaN" THEN NaN
    ELSE IF a.k = "fin" /\ b.k = "fin" THEN Fin(a.n * b.d + b.n * a.d, a.d * b.d)
    ELSE IF a.k = "fin" THEN b
    ELSE IF b.k = "fin" THEN a
    ELSE IF a.k = b.k THEN a
    ELSE NaN

\* the sign of a non-NaN number: -1, 0 or 1 (a zero is +0)
Sign(a) ==
    IF a.k = "Infinity" THEN 1
    ELSE IF a.k = "-Infinity" THEN -1
    ELSE IF a.n > 0 THEN 1
    ELSE IF a.n < 0 THEN -1
    ELSE 0

Signed(s) == IF s > 0 THEN PosInf ELSE NegInf

JsDiv(a, b) ==
    IF a.k = "NaN" \/ b.k = "NaN" THEN NaN
    ELSE IF a.k = "fin" /\ b.k = "fin" THEN
        IF b.n = 0 THEN (IF a.n = 0 THEN NaN ELSE Signed(Sign(a)))
        ELSE IF b.n > 0 THEN Fin(a.n * b.d, a.d * b.n)
        ELSE Fin(-(a.n * b.d), a.d * (-b.n))
    ELSE IF a.k = "fin" THEN Fin(0, 1)
    ELSE IF b.k = "fin" THEN Signed(Sign(a) * (IF Sign(b) < 0 THEN -1 ELSE 1))
    ELSE NaN

JsMul(a, b) ==
    IF a.k = "NaN" \/ b.k = "NaN" THEN NaN
    ELSE IF a.k = "fin" /\ b.k = "fin" THEN Fin(a.n * b.n, a.d * b.d)
    ELSE IF Sign(a) * Sign(b) = 0 THEN NaN
    ELSE Signed(Sign(a) * Sign(b))

MathMax(a, b) ==
    IF a.k = "NaN" \/ b.k = "NaN" THEN NaN ELSE IF JsLt(a, b) THEN b ELSE a

MathMin(a, b) ==
    IF a.k = "NaN" \/ b.k = "NaN" THEN NaN ELSE IF JsLt(b, a) THEN b ELSE a

MathFloor(a) == IF a.k = "fin" THEN Fin(a.n \div a.d, 1) ELSE a

\* Math.min(...xs) and Math.max(...xs): Infinity and -Infinity on no arguments
RECURSIVE MathMinAll(_)
MathMinAll(xs) ==
    IF xs = <<>> THEN PosInf ELSE MathMin(Head(xs), MathMinAll(Tail(xs)))

RECURSIVE MathMaxAll(_)
MathMaxAll(xs) ==
    IF xs = <<>> THEN NegInf ELSE MathMax(Head(xs), MathMaxAll(Tail(xs)))

\* arr[i] for a number i: undefined unless i is an integer index of arr
Index(arr, i) ==
    IF i.k = "fin" /\ i.n % i.d = 0 /\ (i.n \div i.d) \in 0..(Len(arr) - 1)
    THEN arr[(i.n \div i.d) + 1]
    ELSE Undefined

\* the property key an id is stored under in a plain object: its string form
PropertyKey(id) == id.v

\* ------------------------------------------------------------------- state
VARIABLES
    embeddings,        \* prop: the input points, in input order
    maxLevel,          \* prop
    sliderMax,         \* prop
    currentLevel,      \* useState(0)
    densityThreshold,  \* useState(0)
    selectedCluster,   \* useState(null)
    lastEvent,         \* history: the event handled last
    selBefore,         \* history: selectedCluster before the last event
    selBefore2,        \* history: selectedCluster before the last two events
    clickRun           \* history: trailing clicks on points of one cluster id, up to 2

vars == <<embeddings, maxLevel, sliderMax, currentLevel, densityThreshold,
          selectedCluster, lastEvent, selBefore, selBefore2, clickRun>>

props == <<embeddings, maxLevel, sliderMax>>

\* ------------------------------------------------------------------ inputs
ClusterIds == {StrId("A"), StrId("1"), NumId("1")}
SubClusterIds == {StrId("A"), StrId("B")}

Point(x, row) == [x |-> Fin(x, 1), y |-> Fin(0, 1), clusters |-> row]

\* cluster paths that vary the ids: one level, or a level and its child level
Rows(m) ==
    {r \in [1..(m + 1) -> ClusterIds \cup SubClusterIds] :
        /\ r[1] \in ClusterIds
        /\ \A l \in 2..(m + 1) : r[l] \in SubClusterIds}

\* point sets that vary the clusters: up to MaxPoints points spaced along x
ClusterInputs(m) ==
    UNION {{[i \in 1..n |-> Point(i - 1, f[i])] : f \in [1..n -> Rows(m)]} :
              n \in 0..MaxPoints}

\* the one cluster path of the zoom inputs: a different id at every level
LevelNames == <<"L0", "L1", "L2", "L3", "L4", "L5">>
LevelRow(m) == [l \in 1..(m + 1) |-> StrId(LevelNames[l])]

\* point sets that vary the x range: two points anywhere in 0..XMax
ZoomInputs(m) ==
    {<<Point(a, LevelRow(m)), Point(b, LevelRow(m))>> : a, b \in 0..XMax}

\* the point sets for maxLevel = m: the cluster-varying ones have one or two levels
Inputs(m) ==
    IF m \in {0, 1} THEN ClusterInputs(m) \cup ZoomInputs(m) ELSE ZoomInputs(m)

\* the x-axis bounds a relayout event can carry
LowerBounds == {Fin(v, 1) : v \in 0..1}
UpperBounds == {Fin(v, 1) : v \in 0..(XMax + 1)}
PartialBounds == {<<Absent, Absent>>, <<Absent, Fin(1, 1)>>, <<Fin(0, 1), Absent>>}

\* ------------------------------------------------------ per-render values
\* [minX, maxX]
MinMaxX ==
    LET xs == [i \in DOMAIN embeddings |-> embeddings[i].x]
    IN  <<MathMinAll(xs), MathMaxAll(xs)>>

\* counts[key] after the forEach; a key never written reads as undefined
counts(level) ==
    [key \in {PropertyKey(Index(embeddings[i].clusters, level)) : i \in DOMAIN embeddings} |->
        Cardinality({i \in DOMAIN embeddings :
                        PropertyKey(Index(embeddings[i].clusters, level)) = key})]

Retained(pt) ==
    counts(currentLevel)[PropertyKey(Index(pt.clusters, currentLevel))] >= densityThreshold

filteredData == SelectSeq(embeddings, Retained)

\* mutant of totalRange: the x range of the rendered points only
totalRangeOfFiltered ==
    LET xs == [i \in DOMAIN filteredData |-> filteredData[i].x]
    IN  JsSub(MathMaxAll(xs), MathMinAll(xs))

totalRange == JsSub(MinMaxX[2], MinMaxX[1])

\* mutant of customdata: the ids of the coarsest level, whatever the level shown
customdataTopLevel ==
    [i \in DOMAIN filteredData |-> Index(filteredData[i].clusters, Fin(0, 1))]

customdata == [i \in DOMAIN filteredData |-> Index(filteredData[i].clusters, currentLevel)]

\* selectedCluster != null (loose: undefined counts as null)
NotNullish(v) == v.t \notin {"null", "undefined"}

Gray == StrId("#ccc")

\* mutant of markerColor: the selected cluster keeps its own colour
markerColorNoChild(pt) ==
    IF NotNullish(selectedCluster) /\ Index(pt.clusters, currentLevel) # selectedCluster
    THEN Gray
    ELSE Index(pt.clusters, currentLevel)

markerColor(pt) ==
    IF NotNullish(selectedCluster) /\ Index(pt.clusters, currentLevel) # selectedCluster
    THEN Gray
    ELSE IF /\ NotNullish(selectedCluster)
            /\ JsLt(currentLevel, Fin(maxLevel, 1))
            /\ Index(pt.clusters, currentLevel) = selectedCluster
    THEN Index(pt.clusters, JsAdd(currentLevel, Fin(1, 1)))
    ELSE Index(pt.clusters, currentLevel)

markerColors == [i \in DOMAIN filteredData |-> markerColor(filteredData[i])]

markerOpacity(pt) ==
    IF NotNullish(selectedCluster) /\ Index(pt.clusters, currentLevel) # selectedCluster
    THEN Fin(1, 5)
    ELSE Fin(1, 1)

markerOpacities == [i \in DOMAIN filteredData |-> markerOpacity(filteredData[i])]

\* ------------------------------------------------------------------ events
NoEvent ==
    [type |-> "none", x0 |-> Absent, x1 |-> Absent, value |-> 0,
     hasPoint |-> FALSE, cid |-> Null]

RelayoutEvent(x0, x1) == [NoEvent EXCEPT !.type = "relayout", !.x0 = x0, !.x1 = x1]
SliderEvent(v) == [NoEvent EXCEPT !.type = "slider", !.value = v]
ClickEvent(points) ==
    [NoEvent EXCEPT !.type = "click", !.hasPoint = (Len(points) > 0),
                    !.cid = IF Len(points) > 0 THEN points[1].customdata ELSE Null]

Init ==
    /\ \E m \in 0..MaxLevelBound :
          /\ maxLevel = m
          /\ embeddings \in Inputs(m)
    /\ sliderMax = MaxSliderMax    \* a smaller slider offers a subset of the thresholds
    /\ currentLevel = Fin(0, 1)
    /\ densityThreshold = 0
    /\ selectedCluster = Null
    /\ lastEvent = NoEvent
    /\ selBefore = Null
    /\ selBefore2 = Null
    /\ clickRun = 0

\* Math.min(Math.max((totalRange - currentRange) / totalRange, 0), 1)
relativeZoom(x0, x1) ==
    LET currentRange == JsSub(x1, x0)
    IN  MathMin(MathMax(JsDiv(JsSub(totalRange, currentRange), totalRange),
                        Fin(0, 1)),
                Fin(1, 1))

\* mutant of handleRelayout: only the lower bound is tested (undefined - x0 is NaN)
handleRelayoutLowerOnly(x0, x1) ==
    /\ IF x0 # Absent
       THEN currentLevel' = IF x1 = Absent THEN NaN
                            ELSE MathFloor(JsMul(relativeZoom(x0, x1), Fin(maxLevel, 1)))
       ELSE currentLevel' = currentLevel
    /\ UNCHANGED <<densityThreshold, selectedCluster, props>>

\* mutant of handleRelayout: a level change drops the focus
handleRelayoutClearsFocus(x0, x1) ==
    /\ IF x0 # Absent /\ x1 # Absent
       THEN /\ currentLevel' = MathFloor(JsMul(relativeZoom(x0, x1), Fin(maxLevel, 1)))
            /\ selectedCluster' = Null
       ELSE UNCHANGED <<currentLevel, selectedCluster>>
    /\ UNCHANGED <<densityThreshold, props>>

handleRelayout(x0, x1) ==
    /\ IF x0 # Absent /\ x1 # Absent
       THEN currentLevel' = MathFloor(JsMul(relativeZoom(x0, x1), Fin(maxLevel, 1)))
       ELSE currentLevel' = currentLevel
    /\ UNCHANGED <<densityThreshold, selectedCluster, props>>

\* the slider's onChange: setDensityThreshold(Number(e.target.value))
sliderOnChange(value) ==
    /\ densityThreshold' = value
    /\ UNCHANGED <<currentLevel, selectedCluster, props>>

\* mutant of handleClick: a click on a point always focuses its cluster
handleClickNoToggle(points) ==
    /\ IF Len(points) > 0
       THEN selectedCluster' = points[1].customdata
       ELSE selectedCluster' = Null
    /\ UNCHANGED <<currentLevel, densityThreshold, props>>

\* prev == cid: a number equals the string of its digits, null equals undefined
LooseEq(a, b) ==
    \/ a = b
    \/ a.t \in {"string", "number"} /\ b.t \in {"string", "number"} /\ a.v = b.v
    \/ a.t \in {"null", "undefined"} /\ b.t \in {"null", "undefined"}

\* mutant of handleClick: the toggle compares with == instead of ===
handleClickLooseEq(points) ==
    /\ IF Len(points) > 0
       THEN LET cid == points[1].customdata
            IN  selectedCluster' = IF LooseEq(selectedCluster, cid) THEN Null ELSE cid
       ELSE selectedCluster' = Null
    /\ UNCHANGED <<currentLevel, densityThreshold, props>>

handleClick(points) ==
    /\ IF Len(points) > 0
       THEN LET cid == points[1].customdata
            IN  selectedCluster' = IF selectedCluster = cid THEN Null ELSE cid
       ELSE selectedCluster' = Null
    /\ UNCHANGED <<currentLevel, densityThreshold, props>>

\* history: the event just handled, the selection before it, and the length (up to
\* 2) of the trailing run of clicks on points of one cluster id with the selection
\* before that run
Recorded(event) ==
    /\ lastEvent' = event
    /\ selBefore' = selectedCluster
    /\ IF /\ event.type = "click" /\ event.hasPoint
          /\ lastEvent.type = "click" /\ lastEvent.hasPoint
          /\ lastEvent.cid = event.cid
       THEN clickRun' = 2 /\ selBefore2' = selBefore
       ELSE /\ clickRun' = IF event.type = "click" /\ event.hasPoint THEN 1 ELSE 0
            /\ selBefore2' = selectedCluster

Relayout ==
    \E b \in (LowerBounds \X UpperBounds) \cup PartialBounds :
        handleRelayout(b[1], b[2]) /\ Recorded(RelayoutEvent(b[1], b[2]))

Slider == \E v \in 0..sliderMax : sliderOnChange(v) /\ Recorded(SliderEvent(v))

\* a click on the i-th rendered point carries that point's customdata
ClickPoint ==
    \E i \in DOMAIN filteredData :
        LET points == <<[customdata |-> customdata[i]]>>
        IN  handleClick(points) /\ Recorded(ClickEvent(points))

\* a click on empty space carries no point
ClickEmpty == handleClick(<<>>) /\ Recorded(ClickEvent(<<>>))

Next == Relayout \/ Slider \/ ClickPoint \/ ClickEmpty

Spec == Init /\ [][Next]_vars

\* ------------------------------------------------------------------ claims
\* a hierarchy level: an integer in 0..maxLevel
IsLevel(v) == v.k = "fin" /\ v.d = 1 /\ v.n \in 0..maxLevel

\* a cluster id is selected (the cell holds a string or a number)
Selected == selectedCluster.t \in {"string", "number"}

BothBounds(e) == e.type = "relayout" /\ e.x0.k = "fin" /\ e.x1.k = "fin"
PartialEvent(e) == e.type = "relayout" /\ (e.x0.k = "undefined" \/ e.x1.k = "undefined")

\* the x coordinates of all input points, as integers
AllX == {embeddings[i].x.n : i \in DOMAIN embeddings}
SetMax(S) == CHOOSE v \in S : \A w \in S : w <= v
SetMin(S) == CHOOSE v \in S : \A w \in S : v <= w

\* floor(clamp((T - r) / T, 0, 1) * maxLevel) for the bounds a, b, in integer
\* arithmetic, with T = max(x) - min(x) over all input points and r = b - a; where
\* the quotient is not a real number it is read as IEEE-754 does (x / 0 is
\* +-Infinity, 0 / 0 and the range of no points are NaN)
ExpectedLevel(a, b) ==
    LET r == b - a
    IN  IF AllX = {} THEN NaN
        ELSE LET T == SetMax(AllX) - SetMin(AllX)
             IN  IF T = 0
                 THEN (IF r = 0 THEN NaN
                       ELSE IF r > 0 THEN Fin(0, 1) ELSE Fin(maxLevel, 1))
                 ELSE IF r >= T THEN Fin(0, 1)
                 ELSE IF r <= 0 THEN Fin(maxLevel, 1)
                 ELSE Fin(((T - r) * maxLevel) \div T, 1)

\* the number of input points whose cluster id at the current level is id
SameIdCount(id) ==
    Cardinality({i \in DOMAIN embeddings :
                    Index(embeddings[i].clusters, currentLevel) = id})

DenseEnough(pt) == SameIdCount(Index(pt.clusters, currentLevel)) >= densityThreshold

\* C1: in every reachable state currentLevel is an integer in 0..maxLevel, for
\* every input point set and every pair of bounds (stated here for the point sets
\* that hold at least one point, which include those of x range 0).
C1_LevelInRange == embeddings # <<>> => IsLevel(currentLevel)

\* C2: after a zoom event with both bounds, currentLevel is
\* floor(clamp((T - (x1 - x0)) / T, 0, 1) * maxLevel) with T taken over all input
\* points: a function of the bounds, T and maxLevel alone.
C2_ZoomSetsLevel ==
    BothBounds(lastEvent) =>
        currentLevel = ExpectedLevel(lastEvent.x0.n, lastEvent.x1.n)

\* a zoom half way into a range of 2 showed level 1 of 2, with a focus and a
\* density threshold in force
C2_Witness ==
    /\ BothBounds(lastEvent)
    /\ maxLevel = 2 /\ currentLevel = Fin(1, 1)
    /\ Selected /\ densityThreshold > 0

\* C3: the rendered points are exactly the input points whose cluster id at the
\* current level is shared by at least densityThreshold input points, in input
\* order; a threshold of 0 retains every point.
C3_FilterByClusterSize ==
    /\ filteredData = SelectSeq(embeddings, DenseEnough)
    /\ densityThreshold = 0 => filteredData = embeddings

\* C4: a click on a rendered point of cluster c selects c when the selection was
\* none or another id and clears it when it was c; a click on empty space
\* clears it.
C4_ClickToggles ==
    lastEvent.type = "click" =>
        IF lastEvent.hasPoint
        THEN /\ \E i \in DOMAIN filteredData :
                    Index(filteredData[i].clusters, currentLevel) = lastEvent.cid
             /\ selectedCluster = IF selBefore = lastEvent.cid THEN Null ELSE lastEvent.cid
        ELSE selectedCluster = Null

\* a click moved the focus from one cluster to another; elsewhere a click on
\* empty space cleared a focus
C4_Witness ==
    /\ lastEvent.type = "click" /\ lastEvent.hasPoint
    /\ selBefore.t \in {"string", "number"} /\ selBefore # lastEvent.cid
    /\ selectedCluster = lastEvent.cid

\* C5: after two consecutive clicks on points of one cluster id c the selection
\* is none when it was none or another id before the first of them.
C5_DoubleClickClears ==
    (clickRun = 2 /\ selBefore2 # lastEvent.cid) => selectedCluster = Null

\* two clicks in a row on cluster c, starting unselected, ended unselected
C5_Witness ==
    /\ clickRun = 2 /\ selBefore2 = Null
    /\ lastEvent.cid.t \in {"string", "number"}
    /\ selBefore = lastEvent.cid /\ selectedCluster = Null

\* C6: every rendered point outside the selected cluster is gray at opacity 0.2;
\* every rendered point of the selected cluster has the colour of its id at the
\* next level when there is one; every other rendered point has the colour of its
\* id at the current level; every point that is not dimmed has opacity 1.
C6_Styling ==
    \A i \in DOMAIN filteredData :
        LET p == filteredData[i]
            cid == Index(p.clusters, currentLevel)
            dimmed == Selected /\ cid # selectedCluster
        IN  /\ dimmed => markerColors[i] = StrId("#ccc") /\ markerOpacities[i] = Fin(1, 5)
            /\ (Selected /\ cid = selectedCluster /\ IsLevel(currentLevel)
                    /\ currentLevel.n < maxLevel)
                  => markerColors[i] = p.clusters[currentLevel.n + 2]
            /\ (~Selected \/ (cid = selectedCluster /\ ~(IsLevel(currentLevel)
                    /\ currentLevel.n < maxLevel)))
                  => markerColors[i] = cid
            /\ ~dimmed => markerOpacities[i] = Fin(1, 1)

\* with a focus, one rendered point is dimmed and another shows its child
\* cluster's colour
C6_Witness ==
    /\ Selected
    /\ \E i, j \in DOMAIN filteredData :
          /\ markerColors[i] = StrId("#ccc") /\ markerOpacities[i] = Fin(1, 5)
          /\ Index(filteredData[j].clusters, currentLevel) = selectedCluster
          /\ markerColors[j] # selectedCluster
          /\ markerOpacities[j] = Fin(1, 1)

\* C7: a relayout event lacking the lower bound, the upper bound or both changes
\* none of currentLevel, densityThreshold and selectedCluster.
C7_PartialZoomNoOp ==
    [][PartialEvent(lastEvent') =>
          /\ currentLevel' = currentLevel
          /\ densityThreshold' = densityThreshold
          /\ selectedCluster' = selectedCluster]_vars

\* a relayout without both bounds was handled at a deeper level, with a focus
\* and a density threshold in force
C7_Witness ==
    /\ PartialEvent(lastEvent)
    /\ currentLevel # Fin(0, 1) /\ Selected /\ densityThreshold > 0

\* C8: after a zoom event with equal bounds relativeZoom lies in [0, 1] and
\* currentLevel is a level in 0..maxLevel, for every input point set (stated here
\* for the point sets that hold at least one point).
C8_EqualBoundsClamped ==
    (embeddings # <<>> /\ BothBounds(lastEvent) /\ lastEvent.x0 = lastEvent.x1) =>
        LET rz == relativeZoom(lastEvent.x0, lastEvent.x1)
        IN  /\ rz.k = "fin" /\ 0 <= rz.n /\ rz.n <= rz.d
            /\ IsLevel(currentLevel)

\* C9: selectedCluster is none or the cluster id at the current level of at
\* least one rendered point, which is then shown undimmed (stated here for the
\* states whose currentLevel is a level in 0..maxLevel).
C9_SelectionIsRendered ==
    (IsLevel(currentLevel) /\ selectedCluster # Null) =>
        \E i \in DOMAIN filteredData :
            /\ Index(filteredData[i].clusters, currentLevel) = selectedCluster
            /\ markerOpacities[i] = Fin(1, 1)

\* C9 as amended: right after a click on a rendered point that leaves a cluster
\* selected, that cluster is the one at the current level of at least one
\* rendered point, which is shown undimmed.
C9_SelectionIsRenderedAfterClick ==
    (lastEvent.type = "click" /\ lastEvent.hasPoint /\ Selected) =>
        \E i \in DOMAIN filteredData :
            /\ Index(filteredData[i].clusters, currentLevel) = selectedCluster
            /\ markerOpacities[i] = Fin(1, 1)

\* a click at a deeper level focused a cluster while another rendered point
\* stayed outside it
C9_Witness ==
    /\ lastEvent.type = "click" /\ lastEvent.hasPoint /\ Selected
    /\ currentLevel = Fin(1, 1)
    /\ \E i \in DOMAIN filteredData : markerOpacities[i] = Fin(1, 5)

\* C10: a zoom event leaves densityThreshold and selectedCluster unchanged, a
\* slider change leaves currentLevel and selectedCluster unchanged, a click
\* leaves currentLevel and densityThreshold unchanged, and no event changes the
\* input embeddings.
C10_EventsWriteOwnCell ==
    [][/\ lastEvent'.type = "relayout" =>
              densityThreshold' = densityThreshold /\ selectedCluster' = selectedCluster
       /\ lastEvent'.type = "slider" =>
              currentLevel' = currentLevel /\ selectedCluster' = selectedCluster
       /\ lastEvent'.type = "click" =>
              currentLevel' = currentLevel /\ densityThreshold' = densityThreshold
       /\ embeddings' = embeddings]_vars

\* a zoom changed the level and the focus set before it is still there
C10_Witness ==
    /\ BothBounds(lastEvent)
    /\ currentLevel = Fin(maxLevel, 1) /\ maxLevel > 0
    /\ Selected /\ selBefore = selectedCluster
    /\ densityThreshold = 0

====
